---- MODULE Spec2Model ----
(***************************************************************************)
(* Model of curriculum_design (2_autolens_rms.py, lines 77-203): the       *)
(* curriculum loop that grows the aperture stop, periodically corrects,    *)
(* checkpoints and re-samples, and takes one optimizer step per iteration. *)
(*                                                                         *)
(* Numbers.  Aperture radii, focal length and f-number are exact rationals *)
(* <<n, d>> (d > 0, lowest terms).  Loss values are IEEE-754 classes of    *)
(* non-negative floats, "zero", "pos", "inf", "nan": every quantity of the *)
(* spot loss is a square, an absolute value or a count, and on these       *)
(* classes +, * and / are exact up to overflow and underflow.              *)
(***************************************************************************)
EXTENDS Integers, Sequences, FiniteSets, TLC

\* ---------------------------------------------------------------- bounds
\* iterations ranges over 0..MaxIterations (12 is the first budget at which
\* the 1.1 overshoot clamps before the last iteration).
MaxIterations == 12
\* test_per_iter ranges over 1..MaxTestPerIter.
MaxTestPerIter == 2
\* Number of field-point grid cells of a ray batch (num_grid = 15 per axis in
\* the source, scaled down).
NumGrid == 2
\* Rays per grid cell (spp = 512 in the source, scaled down).
Spp == 2

\* Lenses the loop may be entered with: aperture-stop radius r (positive),
\* focal length and the f-number the lens carries at entry.  Every quantity of
\* the curriculum is linear in r, so one radius stands for all.
Lenses == { [r |-> <<5, 2>>, foclen |-> <<35, 1>>, fnum |-> <<4, 1>>] }

Cells == 1..NumGrid
Samples == 1..Spp

\* ------------------------------------------------------ program constants
WAVE_RGB == <<"R", "G", "B">>
NumWaves == Len(WAVE_RGB)
shape_control == TRUE
centroid == FALSE
\* EPSILON is a small positive float.
EPSILON == "pos"
\* w_reg = 0.1, a positive float.
w_reg == "pos"

\* --------------------------------------------------------------- rationals
RECURSIVE GCD(_, _)
GCD(a, b) == IF b = 0 THEN a ELSE GCD(b, a % b)

Abs(n) == IF n < 0 THEN -n ELSE n

Norm(n, d) ==
    LET g == GCD(Abs(n), d) IN <<n \div g, d \div g>>

RAdd(a, b) == Norm(a[1] * b[2] + b[1] * a[2], a[2] * b[2])
RSub(a, b) == Norm(a[1] * b[2] - b[1] * a[2], a[2] * b[2])
RMul(a, b) == Norm(a[1] * b[1], a[2] * b[2])
\* Division by a positive rational.
RDiv(a, b) == Norm(a[1] * b[2], a[2] * b[1])
RLe(a, b) == a[1] * b[2] <= b[1] * a[2]
RLt(a, b) == a[1] * b[2] < b[1] * a[2]
RMin(a, b) == IF RLt(b, a) THEN b ELSE a
RInt(n) == <<n, 1>>

\* ------------------------------------------------- float classes (>= 0)
Float == {"zero", "pos", "inf", "nan"}

Cls(n) == IF n = 0 THEN "zero" ELSE "pos"

FAdd(a, b) ==
    IF a = "nan" \/ b = "nan" THEN "nan"
    ELSE IF a = "inf" \/ b = "inf" THEN "inf"
    ELSE IF a = "zero" /\ b = "zero" THEN "zero"
    ELSE "pos"

FMul(a, b) ==
    IF a = "nan" \/ b = "nan" THEN "nan"
    ELSE IF (a = "zero" /\ b = "inf") \/ (a = "inf" /\ b = "zero") THEN "nan"
    ELSE IF a = "zero" \/ b = "zero" THEN "zero"
    ELSE IF a = "inf" \/ b = "inf" THEN "inf"
    ELSE "pos"

\* Tensor / float division: x / 0 is inf or nan, never an exception.
FDiv(a, b) ==
    IF a = "nan" \/ b = "nan" THEN "nan"
    ELSE IF (a = "zero" /\ b = "zero") \/ (a = "inf" /\ b = "inf") THEN "nan"
    ELSE IF b = "zero" THEN "inf"
    ELSE IF b = "inf" \/ a = "zero" THEN "zero"
    ELSE a

RECURSIVE FSumTo(_, _)
FSumTo(f, n) == IF n = 0 THEN "zero" ELSE FAdd(FSumTo(f, n - 1), f[n])

\* Mean of a non-empty sequence (or function on 1..n) of float classes.
FMean(f, n) == FDiv(FSumTo(f, n), Cls(n))

RECURSIVE ISumTo(_, _)
ISumTo(f, n) == IF n = 0 THEN 0 ELSE ISumTo(f, n - 1) + f[n]

\* ------------------------------------------------------------ ray batches
\* A ray batch: wavelength, per-ray 2D position o (origin, overwritten by the
\* tracer with the sensor intersection) and validity mask ra.
NoObj == [wvln |-> "none", o |-> <<>>, ra |-> <<>>]
Addr == 1..(NumWaves + 1)
RngStates == {0, 1, 2, 3}
NextRng(r) == (r + 1) % Cardinality(RngStates)

\* sample_point_source(depth, num_rays = spp, num_grid, wvln,
\* importance_sampling): a fresh batch drawn from the global generator; all
\* rays valid.  The density flag changes where the samples lie, not how many.
SamplePointSource(wv, imp, r) ==
    [wvln |-> wv,
     o |-> [c \in Cells |-> [k \in Samples |->
              <<c + r, IF imp THEN k ELSE 2 * k>>]],
     ra |-> [c \in Cells |-> [k \in Samples |-> 1]]]

\* ray.o[:, :, -1, :]: the last sample of every cell.
LastSample(o) == [c \in Cells |-> o[c][Spp]]

\* ray.o[:, :, 0, :]: the first sample of every cell.
FirstSample(o) == [c \in Cells |-> o[c][1]]

\* psf_center(point, method): one 2D centre per cell.
PsfCenter(point, method) ==
    [c \in Cells |->
        IF method = "pinhole" THEN <<-point[c][1], -point[c][2]>>
        ELSE <<-point[c][1] - 1, -point[c][2]>>]

Neg(p) == <<-p[1], -p[2]>>

\* center_p.unsqueeze(-2).repeat(1, 1, spp, 1)
Repeat(cp) == [c \in Cells |-> [k \in Samples |-> cp[c]]]

\* Results the tracer may return for a batch, relative to the reference
\* points cp: every ray valid and on its reference point; every valid ray
\* off its reference point with the first cell fully vignetted; no valid ray.
TraceOutcomes == {"focused", "spread", "blocked"}

Traced(b, cp, outcome) ==
    [wvln |-> b.wvln,
     o |-> [c \in Cells |-> [k \in Samples |->
              IF outcome = "focused" THEN cp[c][k]
              ELSE <<cp[c][k][1] + k, cp[c][k][2] - k>>]],
     ra |-> [c \in Cells |-> [k \in Samples |->
              IF outcome = "focused" THEN 1
              ELSE IF outcome = "blocked" THEN 0
              ELSE IF c = 1 THEN 0 ELSE 1]]]

\* Values self.loss_reg() may return (a non-negative penalty).
LossRegValues == {"zero", "pos"}

\* ray.project_to(self.d_sensor)
ProjectTo(b) == b.o

\* -------------------------------------------------------------- spot loss
\* Line 175: xy_norm = (xy - center_p) * ray.ra.unsqueeze(-1)
XyNorm(xy, cp, ra) ==
    [c \in Cells |-> [k \in Samples |->
        <<(xy[c][k][1] - cp[c][k][1]) * ra[c][k],
          (xy[c][k][2] - cp[c][k][2]) * ra[c][k]>>]]

\* (xy_norm ** 2).sum([-1, -2]), per cell
SumSq(xn) ==
    [c \in Cells |->
        ISumTo([k \in Samples |-> xn[c][k][1] * xn[c][k][1]
                                   + xn[c][k][2] * xn[c][k][2]], Spp)]

\* xy_norm.abs().sum(-1).sum(-1), per cell
SumAbs(xn) ==
    [c \in Cells |->
        ISumTo([k \in Samples |-> Abs(xn[c][k][1]) + Abs(xn[c][k][2])], Spp)]

\* ray.ra.sum(-1), per cell
RaSum(ra) == [c \in Cells |-> ISumTo(ra[c], Spp)]

\* Lines 178-180: weight_mask before normalisation.
WeightMaskRaw(xn, ra) ==
    [c \in Cells |-> FDiv(Cls(SumSq(xn)[c]), FAdd(Cls(RaSum(ra)[c]), EPSILON))]

\* Line 181: weight_mask /= weight_mask.mean()
WeightNormalize(w) == [c \in Cells |-> FDiv(w[c], FMean(w, NumGrid))]

WeightMask(xn, ra) == WeightNormalize(WeightMaskRaw(xn, ra))

\* Line 184: the per-wavelength loss.
LRms(xn, ra) ==
    LET wm == WeightMask(xn, ra)
    IN  FMean([c \in Cells |->
                 FMul(FDiv(Cls(SumAbs(xn)[c]), FAdd(Cls(RaSum(ra)[c]), EPSILON)),
                      wm[c])], NumGrid)

\* Lines 174-184 for one traced batch.
SpotLossOf(b, cp) == LRms(XyNorm(ProjectTo(b), cp, b.ra), b.ra)

\* Line 187: sum(loss_rms) / len(loss_rms)
MeanLoss(l) == FMean(l, Len(l))

\* Line 192: L_total = loss_rms + w_reg * loss_reg
TotalLoss(lr, lreg) == FAdd(lr, FMul(w_reg, lreg))

\* ----------------------------------------------------- aperture curriculum
\* The cadence of the centroid mode, whatever the mode.
SampleRaysPerIterCentroid(tpi) == 5 * tpi
\* Line 96
SampleRaysPerIter(tpi) == IF centroid THEN 5 * tpi ELSE tpi

\* Line 97
AperStart(r) == RMul(r, <<2, 5>>)

\* The growth formula without the min(), with progress i / (iterations + 1),
\* and with target fraction 1 instead of 1.1.
AperRNoClamp(a0, a1, idx, iters) ==
    RAdd(RMul(RSub(a1, a0), RMul(RDiv(RInt(idx), RInt(iters)), <<11, 10>>)), a0)

AperROffByOne(a0, a1, idx, iters) ==
    RMin(RAdd(RMul(RSub(a1, a0),
                   RMul(RDiv(RInt(idx), RInt(iters + 1)), <<11, 10>>)),
              a0),
         a1)

AperRNoOvershoot(a0, a1, idx, iters) ==
    RMin(RAdd(RMul(RSub(a1, a0), RDiv(RInt(idx), RInt(iters))), a0), a1)

\* Lines 117-120; `iters` is positive here.
AperR(a0, a1, idx, iters) ==
    RMin(RAdd(RMul(RSub(a1, a0),
                   RMul(RDiv(RInt(idx), RInt(iters)), <<11, 10>>)),
              a0),
         a1)

\* foclen / (aper_r / 2)
FnumWrongGrouping(fl, r) == RDiv(fl, RDiv(r, RInt(2)))

\* Line 122: self.foclen / aper_r / 2
Fnum(fl, r) == RDiv(RDiv(fl, r), RInt(2))

\* f"{result_dir}/iter{i}.json" and f"{result_dir}/iter{i}"
LensJsonName(idx) == <<"iter", idx, ".json">>
AnalysisName(idx) == <<"iter", idx, "">>

\* ------------------------------------------------------------------ state
VARIABLES
    iterations, test_per_iter, importance_sampling, optim_mat, match_mat,
    surf_r, fnum, foclen,
    aper_start, aper_final, aper_r, sample_rays_per_iter,
    i, j, pc, err,
    rng, heap, rays_backup, ray, center_p,
    loss_rms, L_total,
    grads, n_updates, sched_steps,
    hist

args == <<iterations, test_per_iter, importance_sampling, optim_mat, match_mat>>
lens == <<surf_r, fnum, foclen>>
curr == <<aper_start, aper_final, aper_r, sample_rays_per_iter>>
cache == <<rng, heap, rays_backup, ray, center_p>>
loss == <<loss_rms, L_total>>
optim == <<grads, n_updates, sched_steps>>
vars == <<args, lens, curr, i, j, pc, err, cache, loss, optim, hist>>

None == <<>>

Event(op, arg) == [op |-> op, i |-> i, arg |-> arg]
Log(op, arg) == Append(hist, Event(op, arg))

\* State at the `for` statement of line 113, first entry: lines 90-109 done.
Init ==
    /\ iterations \in 0..MaxIterations
    /\ test_per_iter \in 1..MaxTestPerIter
    /\ importance_sampling \in BOOLEAN
    /\ optim_mat \in BOOLEAN
    /\ match_mat \in BOOLEAN
    /\ \E l \in Lenses :
         /\ surf_r = l.r
         /\ fnum = l.fnum
         /\ foclen = l.foclen
         /\ aper_start = AperStart(l.r)
         /\ aper_final = l.r
    /\ aper_r = None
    /\ sample_rays_per_iter = SampleRaysPerIter(test_per_iter)
    /\ i = -1
    /\ j = 0
    /\ pc = "for"
    /\ err = "none"
    /\ rng = 0
    /\ heap = [a \in Addr |-> NoObj]
    /\ rays_backup = <<>>
    /\ ray = 0
    /\ center_p = None
    /\ loss_rms = <<>>
    /\ L_total = "unset"
    /\ grads = "none"
    /\ n_updates = 0
    /\ sched_steps = 0
    /\ hist = <<>>

\* ------------------------------------------------------------------- heap
Range(f) == {f[k] : k \in DOMAIN f}

\* The lowest address no live reference holds.
Alloc(used) ==
    CHOOSE a \in Addr : a \notin used /\ \A b \in Addr : b \notin used => a <= b

\* Objects no reference reaches are reclaimed.
GC(h, live) == [a \in Addr |-> IF a \in live THEN h[a] ELSE NoObj]

\* No copy: the cached object itself.
AliasAddr(src, used) == src

\* rays_backup[j].clone(): the address of a new object holding a copy.
CloneAddr(src, used) == Alloc(used)

\* The batches the cache holds, by wavelength index.
CachedBatches == [k \in DOMAIN rays_backup |-> heap[rays_backup[k]]]

\* ------------------------------------------------------- reference points
\* The method follows the density flag of the sampler.
CenterMethodByDensity == IF importance_sampling THEN "chief_ray" ELSE "pinhole"

\* Lines 157-164: the method psf_center is called with.
CenterMethod == IF centroid THEN "chief_ray" ELSE "pinhole"

\* The first batch of the cache.
CenterSourceFirst == rays_backup[1]

\* Lines 159 and 164: `ray`, the loop variable the sampling loop leaves.
CenterSource == ray

\* Lines 157-166: the reference points computed from the batch `b`.
RayCenters(b) ==
    Repeat([c \in Cells |-> Neg(PsfCenter(FirstSample(b.o), CenterMethod)[c])])

\* ---------------------------------------------------------------- scheduler
\* The schedule covers every pass of the loop.
NumTrainingStepsFull == iterations + 1

\* Line 108: num_training_steps = iterations
NumTrainingSteps == iterations

\* Line 108: num_warmup_steps = iterations // 10
NumWarmupSteps == iterations \div 10

\* ------------------------------------------------------------- phase order
IsEvalSkipFirst(idx) == idx % test_per_iter = 0 /\ idx > 0
IsEval(idx) == idx % test_per_iter = 0
IsResample(idx) == idx % sample_rays_per_iter = 0

\* Line 141 onwards, after the evaluation block.
AfterEval(idx) == IF IsResample(idx) THEN "sample" ELSE "loss_init"
\* Line 113 into the body.
IterStart(idx) == IF IsEval(idx) THEN "aper" ELSE AfterEval(idx)
AfterCorrectEither == IF optim_mat \/ match_mat THEN "match" ELSE "write"
\* Lines 129-132
AfterCorrect == IF optim_mat /\ match_mat THEN "match" ELSE "write"
\* Lines 125-127
AfterAperture(idx) ==
    IF idx > 0
    THEN (IF shape_control THEN "correct" ELSE AfterCorrect)
    ELSE "write"

\* The analysis runs before the checkpoint is written.
EvalFlowAnalysisFirst(p, idx) ==
    CASE p = "aper" ->
             IF AfterAperture(idx) = "write" THEN "analysis"
             ELSE AfterAperture(idx)
      [] p = "correct" -> IF AfterCorrect = "write" THEN "analysis" ELSE AfterCorrect
      [] p = "match" -> "analysis"
      [] p = "analysis" -> "write"
      [] p = "write" -> AfterEval(idx)

\* Lines 115-141: the statement that follows statement `p` of the evaluation
\* block in iteration idx.
EvalFlow(p, idx) ==
    CASE p = "aper" -> AfterAperture(idx)
      [] p = "correct" -> AfterCorrect
      [] p = "match" -> "write"
      [] p = "write" -> "analysis"
      [] p = "analysis" -> AfterEval(idx)

\* Line 113: range(iterations + 1) yields idx.
InRangeShort(idx) == idx < iterations
InRange(idx) == idx < iterations + 1

\* ---------------------------------------------------------------- actions
\* Line 113: for i in range(iterations + 1)
ForNext ==
    /\ pc = "for"
    /\ IF InRange(i + 1)
       THEN /\ i' = i + 1
            /\ pc' = IterStart(i + 1)
       ELSE /\ i' = i
            /\ pc' = "close"
    /\ UNCHANGED <<args, lens, curr, j, err, cache, loss, optim, hist>>

\* Lines 115-122: aperture curriculum.  i / iterations raises
\* ZeroDivisionError when iterations = 0.
SetAperture ==
    /\ pc = "aper"
    /\ IF iterations = 0
       THEN /\ pc' = "raised"
            /\ err' = "ZeroDivisionError"
            /\ UNCHANGED <<lens, curr, hist>>
       ELSE LET r == AperR(aper_start, aper_final, i, iterations)
            IN  /\ aper_r' = r
                /\ surf_r' = r
                /\ fnum' = Fnum(foclen, r)
                /\ hist' = Log("set_aperture", r)
                /\ pc' = EvalFlow(pc, i)
                /\ UNCHANGED <<foclen, aper_start, aper_final,
                               sample_rays_per_iter, err>>
    /\ UNCHANGED <<args, i, j, cache, loss, optim>>

\* Line 127: self.correct_shape().  The engine's correction, matching,
\* serialisation and analysis work on the lens surfaces; the loop's own fields
\* (aperture-stop radius, fnum, foclen) are written by lines 121-122 alone.
CorrectShape ==
    /\ pc = "correct"
    /\ hist' = Log("correct_shape", None)
    /\ pc' = EvalFlow(pc, i)
    /\ UNCHANGED <<args, lens, curr, i, j, err, cache, loss, optim>>

\* Line 130: self.match_materials()
MatchMaterials ==
    /\ pc = "match"
    /\ hist' = Log("match_materials", None)
    /\ pc' = EvalFlow(pc, i)
    /\ UNCHANGED <<args, lens, curr, i, j, err, cache, loss, optim>>

\* Line 132: self.write_lens_json(f"{result_dir}/iter{i}.json")
WriteLensJson ==
    /\ pc = "write"
    /\ hist' = Log("write_lens_json", LensJsonName(i))
    /\ pc' = EvalFlow(pc, i)
    /\ UNCHANGED <<args, lens, curr, i, j, err, cache, loss, optim>>

\* Lines 133-138: self.analysis(f"{result_dir}/iter{i}", ...)
Analysis ==
    /\ pc = "analysis"
    /\ hist' = Log("analysis", AnalysisName(i))
    /\ pc' = EvalFlow(pc, i)
    /\ UNCHANGED <<args, lens, curr, i, j, err, cache, loss, optim>>

\* Lines 141-145: scale = calc_scale_pinhole(depth); rays_backup = []
BeginSample ==
    /\ pc = "sample"
    /\ rays_backup' = <<>>
    /\ heap' = GC(heap, {ray})
    /\ j' = 1
    /\ pc' = "sample_wv"
    /\ UNCHANGED <<args, lens, curr, i, err, rng, ray, center_p, loss, optim,
                   hist>>

\* Lines 146-154: one pass of `for wv in WAVE_RGB`.  The event records the
\* aperture-stop radius in force at the draw.
SampleRays ==
    /\ pc = "sample_wv"
    /\ LET a == Alloc(Range(rays_backup))
           b == SamplePointSource(WAVE_RGB[j], importance_sampling, rng)
       IN  /\ ray' = a
           /\ rays_backup' = Append(rays_backup, a)
           /\ heap' = GC([heap EXCEPT ![a] = b], Range(rays_backup) \cup {a})
    /\ rng' = NextRng(rng)
    /\ hist' = Log("sample_point_source", surf_r)
    /\ IF j < NumWaves
       THEN /\ j' = j + 1
            /\ pc' = "sample_wv"
       ELSE /\ j' = j
            /\ pc' = "center"
    /\ UNCHANGED <<args, lens, curr, i, err, center_p, loss, optim>>

\* Lines 157-166: reference points from `ray`, the batch sampled last.
ComputeCenters ==
    /\ pc = "center"
    /\ center_p' = RayCenters(heap[CenterSource])
    /\ hist' = Log("psf_center", CenterMethod)
    /\ pc' = "loss_init"
    /\ UNCHANGED <<args, lens, curr, i, j, err, rng, heap, rays_backup, ray,
                   loss, optim>>

\* Line 169: loss_rms = []
BeginLoss ==
    /\ pc = "loss_init"
    /\ loss_rms' = <<>>
    /\ j' = 1
    /\ pc' = "clone"
    /\ UNCHANGED <<args, lens, curr, i, err, cache, L_total, optim, hist>>

\* Line 172: ray = rays_backup[j].clone()
CloneRay ==
    /\ pc = "clone"
    /\ LET src == rays_backup[j]
           a == CloneAddr(src, Range(rays_backup))
       IN  /\ ray' = a
           /\ heap' = GC([heap EXCEPT ![a] = heap[src]],
                         Range(rays_backup) \cup {a})
    /\ pc' = "trace"
    /\ UNCHANGED <<args, lens, curr, i, j, err, rng, rays_backup, center_p,
                   loss, optim, hist>>

\* Line 173: ray, _ = self.trace(ray); the tracer updates the batch in place.
TraceRay ==
    /\ pc = "trace"
    /\ \E outcome \in TraceOutcomes :
         heap' = [heap EXCEPT ![ray] = Traced(heap[ray], center_p, outcome)]
    /\ hist' = Log("trace", None)
    /\ pc' = "spot"
    /\ UNCHANGED <<args, lens, curr, i, j, err, rng, rays_backup, ray,
                   center_p, loss, optim>>

\* Lines 174-185: spot loss of this wavelength, appended to loss_rms.
SpotLoss ==
    /\ pc = "spot"
    /\ loss_rms' = Append(loss_rms, SpotLossOf(heap[ray], center_p))
    /\ IF j < NumWaves
       THEN /\ j' = j + 1
            /\ pc' = "clone"
       ELSE /\ j' = j
            /\ pc' = "mean"
    /\ UNCHANGED <<args, lens, curr, i, err, cache, L_total, optim, hist>>

\* Line 187: loss_rms = sum(loss_rms) / len(loss_rms)
AggregateLoss ==
    /\ pc = "mean"
    /\ loss_rms' = MeanLoss(loss_rms)
    /\ pc' = "reg"
    /\ UNCHANGED <<args, lens, curr, i, j, err, cache, L_total, optim, hist>>

\* Lines 190-192: loss_reg = self.loss_reg(); L_total
Regularize ==
    /\ pc = "reg"
    /\ \E lreg \in LossRegValues : L_total' = TotalLoss(loss_rms, lreg)
    /\ hist' = Log("loss_reg", None)
    /\ pc' = "zero_grad"
    /\ UNCHANGED <<args, lens, curr, i, j, err, cache, loss_rms, optim>>

\* Line 195: optimizer.zero_grad()
ZeroGrad ==
    /\ pc = "zero_grad"
    /\ grads' = "zero"
    /\ hist' = Log("zero_grad", None)
    /\ pc' = "backward"
    /\ UNCHANGED <<args, lens, curr, i, j, err, cache, loss, n_updates,
                   sched_steps>>

\* Line 196: L_total.backward()
Backward ==
    /\ pc = "backward"
    /\ grads' = L_total
    /\ hist' = Log("backward", None)
    /\ pc' = "opt_step"
    /\ UNCHANGED <<args, lens, curr, i, j, err, cache, loss, n_updates,
                   sched_steps>>

\* Line 197: optimizer.step()
OptimizerStep ==
    /\ pc = "opt_step"
    /\ n_updates' = n_updates + 1
    /\ hist' = Log("optimizer_step", None)
    /\ pc' = "sched_step"
    /\ UNCHANGED <<args, lens, curr, i, j, err, cache, loss, grads,
                   sched_steps>>

\* Lines 198-201: scheduler.step(); progress bar
SchedulerStep ==
    /\ pc = "sched_step"
    /\ sched_steps' = sched_steps + 1
    /\ hist' = Log("scheduler_step", None)
    /\ pc' = "for"
    /\ UNCHANGED <<args, lens, curr, i, j, err, cache, loss, grads, n_updates>>

\* Line 203: pbar.close(); the function returns.
Close ==
    /\ pc = "close"
    /\ pc' = "done"
    /\ UNCHANGED <<args, lens, curr, i, j, err, cache, loss, optim, hist>>

\* The external call made at each position of the loop body.
CallAt ==
    [p \in {"correct", "match", "write", "analysis", "sample", "sample_wv",
            "center", "trace", "reg"} |->
        CASE p = "correct" -> "correct_shape"
          [] p = "match" -> "match_materials"
          [] p = "write" -> "write_lens_json"
          [] p = "analysis" -> "analysis"
          [] p = "sample" -> "calc_scale_pinhole"
          [] p = "sample_wv" -> "sample_point_source"
          [] p = "center" -> "psf_center"
          [] p = "trace" -> "trace"
          [] p = "reg" -> "loss_reg"]

\* The exception is caught and the loop goes on with the next iteration.
RaiseAndContinue ==
    /\ pc \in DOMAIN CallAt
    /\ err' = CallAt[pc]
    /\ pc' = "for"
    /\ UNCHANGED <<args, lens, curr, i, j, cache, loss, optim, hist>>

\* No try/except anywhere in lines 113-203: an exception raised by an
\* external call leaves the function at once.
Raise ==
    /\ pc \in DOMAIN CallAt
    /\ err' = CallAt[pc]
    /\ pc' = "raised"
    /\ UNCHANGED <<args, lens, curr, i, j, cache, loss, optim, hist>>

Next ==
    \/ ForNext
    \/ SetAperture
    \/ CorrectShape
    \/ MatchMaterials
    \/ WriteLensJson
    \/ Analysis
    \/ BeginSample
    \/ SampleRays
    \/ ComputeCenters
    \/ BeginLoss
    \/ CloneRay
    \/ TraceRay
    \/ SpotLoss
    \/ AggregateLoss
    \/ Regularize
    \/ ZeroGrad
    \/ Backward
    \/ OptimizerStep
    \/ SchedulerStep
    \/ Close
    \/ Raise

Spec == Init /\ [][Next]_vars

\* ----------------------------------------------------------- observations
\* The events of one kind, in the order they happened.
Ops(op) == SelectSeq(hist, LAMBDA e : e.op = op)

\* The run has ended: the function returned or an exception left it.
Ended == pc \in {"done", "raised"}
\* Between two iterations, or ended.  hist only grows, so what holds of it in
\* these states holds of every event of every run.
Settled == pc \in {"for", "done", "raised"}
\* No external call failed.
NoExternalFailure == err \in {"none", "ZeroDivisionError"}

\* 0.4 * r1, r1 being the radius read at entry.
StartRadius == RMul(<<2, 5>>, aper_final)

\* ------------------------------------------------------------------ claims

\* C1: for iterations >= 1 the radii assigned at successive evaluation
\* boundaries never decrease, and each lies between 0.4 * r1 and r1.
C1_ApertureMonotoneBounded ==
    (Settled /\ iterations >= 1) =>
        LET a == Ops("set_aperture") IN
        \A k \in DOMAIN a :
            /\ a[k].i % test_per_iter = 0
            /\ RLe(StartRadius, a[k].arg)
            /\ RLe(a[k].arg, aper_final)
            /\ k > 1 => /\ RLe(a[k - 1].arg, a[k].arg)
                        /\ a[k - 1].i < a[k].i

\* A completed run whose radius grew strictly and then stayed clamped at r1
\* over two boundaries.
C1_Witness ==
    LET a == Ops("set_aperture") IN
    /\ pc = "done"
    /\ Len(a) >= 3
    /\ a[1].arg = StartRadius
    /\ RLt(a[1].arg, a[2].arg)
    /\ a[Len(a) - 1].arg = aper_final
    /\ a[Len(a)].arg = aper_final

\* C2: for iterations >= 1 the checkpoints written so far are those of the
\* evaluation boundaries 0, t, 2t, ... in increasing order, one
\* write_lens_json and one analysis each, named iter{i}; a completed run has
\* written one for every boundary in 0..iterations.
C2_CheckpointsAtBoundaries ==
    (Settled /\ iterations >= 1) =>
        LET w == Ops("write_lens_json")
            a == Ops("analysis")
        IN  /\ \A k \in DOMAIN w :
                 /\ w[k].i = (k - 1) * test_per_iter
                 /\ w[k].arg = <<"iter", w[k].i, ".json">>
            /\ \A k \in DOMAIN a :
                 /\ a[k].i = (k - 1) * test_per_iter
                 /\ a[k].arg = <<"iter", a[k].i, "">>
            /\ Len(a) <= Len(w)
            /\ Len(w) <= Len(a) + 1
            /\ pc = "done" =>
                 /\ Len(w) = (iterations \div test_per_iter) + 1
                 /\ Len(a) = Len(w)

\* A completed run with five checkpoints, at 0, t, 2t, 3t, 4t = iterations
\* (the shape of iterations = 200, test_per_iter = 50).
C2_Witness ==
    /\ pc = "done"
    /\ test_per_iter > 1
    /\ iterations = 4 * test_per_iter
    /\ Len(Ops("write_lens_json")) = 5
    /\ Len(Ops("analysis")) = 5

\* C3: a run with iterations = 0 and test_per_iter = 1 that has ended (no
\* external call failing) made exactly one checkpoint, at i = 0, with the
\* radius set to 0.4 * r1 before the write, and no correct_shape call.
C3_SingleCheckpointAtZero ==
    (iterations = 0 /\ test_per_iter = 1 /\ Ended /\ NoExternalFailure) =>
        /\ Len(Ops("write_lens_json")) = 1
        /\ Len(Ops("analysis")) = 1
        /\ Ops("write_lens_json")[1].i = 0
        /\ surf_r = StartRadius
        /\ Len(Ops("correct_shape")) = 0

\* The last evaluation boundary at or before idx.
LastBoundary(idx) == idx - (idx % test_per_iter)

\* The positions of the optimization part of an iteration (lines 168-198).
StepPhase ==
    {"loss_init", "clone", "trace", "spot", "mean", "reg", "zero_grad",
     "backward", "opt_step", "sched_step"}

\* C4 as stated: for iterations >= 1, when the loop has finished (i =
\* iterations, DONE) the aperture-stop radius equals r1.
C4_FinalApertureIsTarget ==
    (iterations >= 1 /\ pc = "done") => (i = iterations /\ surf_r = aper_final)

\* C4 amended: for iterations >= 1 with test_per_iter dividing iterations
\* (so that i = iterations is an evaluation boundary), when the loop has
\* finished the aperture-stop radius, as set by the curriculum, equals r1.
C4_FinalApertureIsTargetOnSchedule ==
    (iterations >= 1 /\ iterations % test_per_iter = 0 /\ pc = "done") =>
        /\ i = iterations
        /\ surf_r = aper_final
        /\ aper_r = aper_final

\* A completed run whose last iteration is an evaluation boundary, other
\* than boundary 0 and with boundaries further apart than one step.
C4_Witness ==
    /\ pc = "done"
    /\ test_per_iter >= 2
    /\ iterations >= 2 * test_per_iter
    /\ iterations % test_per_iter = 0
    /\ surf_r = aper_final
    /\ Len(Ops("set_aperture")) >= 3

\* C5 as stated: for iterations >= 1, every optimization step at an
\* iteration i with 1.1 * i >= iterations runs at the full aperture r1.
C5_LateStepsAtFullAperture ==
    (iterations >= 1 /\ pc \in StepPhase /\ 11 * i >= 10 * iterations) =>
        surf_r = aper_final

\* C5 amended: for iterations >= 1, every optimization step at an iteration
\* i whose most recent evaluation boundary k = i - (i mod test_per_iter)
\* satisfies 1.1 * k > iterations runs at the full aperture r1.
C5_StepsAfterClampedBoundaryAtFullAperture ==
    (/\ iterations >= 1
     /\ pc \in StepPhase
     /\ 11 * LastBoundary(i) > 10 * iterations) =>
        surf_r = aper_final

\* An optimizer update before the last iteration that runs at full aperture
\* because the overshoot has clamped.
C5_Witness ==
    /\ pc = "opt_step"
    /\ i < iterations
    /\ 11 * LastBoundary(i) > 10 * iterations
    /\ surf_r = aper_final

\* C6: correct_shape is called at the evaluation boundaries with i > 0, once
\* each, and nowhere else; match_materials likewise when optim_mat and
\* match_mat are both true, and never otherwise.  Every checkpoint written at
\* i > 0 comes after that boundary's calls.
C6_CorrectionCalls ==
    Settled =>
    LET cs == Ops("correct_shape")
        mm == Ops("match_materials")
        w == Ops("write_lens_json")
    IN  /\ \A k \in DOMAIN cs : cs[k].i = k * test_per_iter
        /\ \A k \in DOMAIN w :
             w[k].i > 0 => (k - 1 \in DOMAIN cs /\ cs[k - 1].i = w[k].i)
        /\ IF optim_mat /\ match_mat
           THEN /\ \A k \in DOMAIN mm : mm[k].i = k * test_per_iter
                /\ \A k \in DOMAIN w :
                     w[k].i > 0 => (k - 1 \in DOMAIN mm /\ mm[k - 1].i = w[k].i)
           ELSE Len(mm) = 0
        /\ pc = "done" => Len(cs) = iterations \div test_per_iter

\* A completed run with material matching on, two or more corrections, and
\* iterations between the boundaries and after the last one.
C6_Witness ==
    /\ pc = "done"
    /\ optim_mat
    /\ match_mat
    /\ test_per_iter >= 2
    /\ iterations % test_per_iter # 0
    /\ Len(Ops("correct_shape")) >= 2
    /\ Len(Ops("match_materials")) = Len(Ops("correct_shape"))

OptimizerOps == {"zero_grad", "backward", "optimizer_step", "scheduler_step"}
OptimizerCycle == <<"zero_grad", "backward", "optimizer_step", "scheduler_step">>

\* C7: the optimizer events are zero_grad, backward, optimizer.step,
\* scheduler.step, in that order, once per iteration 0, 1, 2, ..., whatever
\* the iteration's evaluation or resample status; a completed run has made
\* iterations + 1 updates and takes no further step.
C7_OneUpdatePerIteration ==
    Settled =>
    LET o == SelectSeq(hist, LAMBDA e : e.op \in OptimizerOps) IN
    /\ \A k \in DOMAIN o :
         /\ o[k].op = OptimizerCycle[((k - 1) % 4) + 1]
         /\ o[k].i = (k - 1) \div 4
    /\ n_updates = Len(Ops("optimizer_step"))
    /\ pc = "for" => (Len(o) = 4 * (i + 1) /\ n_updates = i + 1)
    /\ pc = "done" =>
         /\ n_updates = iterations + 1
         /\ Len(o) = 4 * (iterations + 1)
         /\ ~ENABLED Next

\* A completed run of several iterations, some of them not boundaries.
C7_Witness ==
    /\ pc = "done"
    /\ iterations >= 3
    /\ test_per_iter >= 2
    /\ n_updates = iterations + 1

\* 5 * test_per_iter in centroid mode, test_per_iter otherwise.
ResampleCadence == IF centroid THEN 5 * test_per_iter ELSE test_per_iter

\* C8: the cached batches change only in the resample steps of an iteration
\* with i mod sample_rays_per_iter = 0; every other step, the trace included,
\* leaves their contents as they were, and what is traced is a copy of the
\* cached batch of that wavelength, held in another object.
C8_CacheWrittenOnlyAtResample ==
    /\ [](pc = "trace" =>
            /\ ray \notin Range(rays_backup)
            /\ heap[ray] = heap[rays_backup[j]]
            /\ heap[ray].wvln = WAVE_RGB[j])
    /\ [][CachedBatches' # CachedBatches =>
            /\ i % ResampleCadence = 0
            /\ pc \in {"sample", "sample_wv"}]_vars

\* The tracer has changed the copy in an iteration that draws no rays, and
\* the cached batch still is what was sampled.
C8_Witness ==
    /\ pc = "spot"
    /\ i % ResampleCadence # 0
    /\ heap[ray] # heap[rays_backup[j]]
    /\ \E r \in RngStates :
         heap[rays_backup[j]] =
             SamplePointSource(WAVE_RGB[j], importance_sampling, r)

\* fnum = foclen / (2 * r)
FnumMatches == RMul(fnum, RMul(RInt(2), surf_r)) = foclen

\* C9: the loop assigns the aperture-stop radius and the f-number only in
\* the aperture step of an iteration with i mod test_per_iter = 0; every
\* other step leaves both unchanged; right after each assignment
\* fnum = foclen / (2 * r).
C9_ApertureAssignedOnlyAtBoundaries ==
    /\ [][(surf_r' # surf_r \/ fnum' # fnum) =>
            (pc = "aper" /\ i % test_per_iter = 0)]_vars
    /\ [][(pc = "aper" /\ pc' # "raised") =>
            /\ surf_r' = aper_r'
            /\ FnumMatches']_vars

\* An optimizer update in an iteration that is no boundary, after two
\* assignments, with the aperture still below r1.
C9_Witness ==
    /\ pc = "opt_step"
    /\ i % test_per_iter # 0
    /\ Len(Ops("set_aperture")) >= 2
    /\ surf_r # aper_final
    /\ FnumMatches

\* Every ray of the traced batch is valid and lies on its reference point.
AllValidCentered(b, cp) ==
    \A c \in Cells : \A k \in Samples :
        b.ra[c][k] = 1 /\ b.o[c][k] = cp[c][k]

\* C10: the spot loss of a traced batch in which every ray is valid and on
\* its reference point is 0, and not NaN.
C10_CenteredBatchLossZero ==
    (/\ pc \in {"clone", "mean"}
     /\ Len(loss_rms) >= 1
     /\ AllValidCentered(heap[ray], center_p)) =>
        loss_rms[Len(loss_rms)] = "zero"

\* Some grid cell of the traced batch has no valid ray.
HasEmptyCell(b) == \E c \in Cells : \A k \in Samples : b.ra[c][k] = 0

\* C11: the spot loss of a traced batch that has a cell with no valid ray,
\* be it one such cell or all of them, is a finite number, not NaN.
C11_EmptyCellLossFinite ==
    (/\ pc \in {"clone", "mean"}
     /\ Len(loss_rms) >= 1
     /\ HasEmptyCell(heap[ray])) =>
        loss_rms[Len(loss_rms)] \in {"zero", "pos"}

\* The external calls the loop makes whose failure C12 is about.
FailingCalls ==
    {"sample_point_source", "trace", "correct_shape", "write_lens_json",
     "analysis", "loss_reg"}

\* C12: once an external call has failed the run is over: the loop is at no
\* position from which any step (a retry, a later iteration, an optimizer
\* step, a checkpoint write) can be taken, and the failing step itself adds
\* no event, no optimizer or scheduler step and leaves the iteration index.
C12_FailureAborts ==
    /\ [](err # "none" => (pc = "raised" /\ ~ENABLED Next))
    /\ [][err' # err =>
            /\ hist' = hist
            /\ n_updates' = n_updates
            /\ sched_steps' = sched_steps
            /\ i' = i]_vars

\* The tracer failed in the second iteration or later, after checkpoints
\* were written and optimizer steps taken.
C12_Witness ==
    /\ pc = "raised"
    /\ err = "trace"
    /\ err \in FailingCalls
    /\ i >= 2
    /\ n_updates = i
    /\ Len(Ops("write_lens_json")) >= 2
    /\ Len(Ops("write_lens_json")) = Len(Ops("analysis"))

\* C13: the reference-point method, the iterations of the resamples, the
\* radius of every aperture update and the number of reference points per
\* draw are fixed by the arguments other than importance_sampling, so two
\* runs that differ only in that flag agree on all of them: the method is
\* the one the mode switch selects, the n-th resample is in iteration
\* (n - 1) * cadence, the n-th update is that of boundary (n - 1) *
\* test_per_iter, and center_p holds one point per cell and sample.
C13_DensityFlagOnlyReachesSampler ==
    /\ Settled =>
         /\ \A n \in DOMAIN Ops("psf_center") :
              /\ Ops("psf_center")[n].arg =
                     (IF centroid THEN "chief_ray" ELSE "pinhole")
              /\ Ops("psf_center")[n].i = (n - 1) * ResampleCadence
         /\ \A n \in DOMAIN Ops("sample_point_source") :
              Ops("sample_point_source")[n].i =
                  ((n - 1) \div NumWaves) * ResampleCadence
         /\ \A n \in DOMAIN Ops("set_aperture") :
              /\ Ops("set_aperture")[n].i = (n - 1) * test_per_iter
              /\ Ops("set_aperture")[n].arg =
                     AperR(StartRadius, aper_final, (n - 1) * test_per_iter,
                           iterations)
    /\ center_p # None =>
         /\ DOMAIN center_p = Cells
         /\ \A c \in Cells : DOMAIN center_p[c] = Samples

\* A completed run with the flag off that resampled twice or more, and whose
\* cached batch is not one the sampler returns with the flag on: the flag
\* reached the sampler and nothing else changed.
C13_Witness ==
    /\ pc = "done"
    /\ ~importance_sampling
    /\ Len(Ops("psf_center")) >= 2
    /\ Len(Ops("set_aperture")) >= 2
    /\ \A r \in RngStates :
         heap[rays_backup[1]] # SamplePointSource(WAVE_RGB[1], TRUE, r)

\* The place of an external call in the body of the loop.
Rank(op) ==
    CASE op = "set_aperture" -> 1
      [] op = "correct_shape" -> 2
      [] op = "match_materials" -> 3
      [] op = "write_lens_json" -> 4
      [] op = "analysis" -> 5
      [] op = "sample_point_source" -> 6
      [] op = "psf_center" -> 7
      [] op = "trace" -> 8
      [] op = "loss_reg" -> 9
      [] op = "zero_grad" -> 10
      [] op = "backward" -> 11
      [] op = "optimizer_step" -> 12
      [] op = "scheduler_step" -> 13

\* Event b may follow event a: a later iteration, or the same iteration and a
\* later phase; only the per-wavelength calls repeat within an iteration.
Follows(a, b) ==
    \/ a.i < b.i
    \/ /\ a.i = b.i
       /\ Rank(a.op) <= Rank(b.op)
       /\ Rank(a.op) = Rank(b.op) => a.op \in {"sample_point_source", "trace"}

\* The events of iteration idx, in the order they happened.
IterOps(idx) == SelectSeq(hist, LAMBDA e : e.i = idx)

\* C14: in every iteration the calls happen in the order aperture update,
\* correct_shape, match_materials, write_lens_json, analysis, ray sampling,
\* reference point, trace, regularisation, optimizer step, scheduler step;
\* the optimizer step of an iteration follows a trace of that iteration; and
\* when checkpoint i is written and analysed the optimizer has made exactly
\* i updates.  (hist only grows at its end, so the order of the last two
\* events in every state is the order of every two neighbours.)
C14_PhaseOrder ==
    /\ Len(hist) >= 2 => Follows(hist[Len(hist) - 1], hist[Len(hist)])
    /\ pc \in {"write", "analysis"} => n_updates = i
    /\ pc = "opt_step" =>
         /\ hist[Len(hist)].op = "backward"
         /\ \E n \in DOMAIN hist : hist[n].op = "trace" /\ hist[n].i = i

\* An evaluation iteration after the first, with material matching on, about
\* to step the optimizer: every phase has run, in the order of the source.
C14_Witness ==
    /\ pc = "opt_step"
    /\ i >= 1
    /\ n_updates = i
    /\ [n \in DOMAIN IterOps(i) |-> IterOps(i)[n].op] =
          <<"set_aperture", "correct_shape", "match_materials",
            "write_lens_json", "analysis", "sample_point_source",
            "sample_point_source", "sample_point_source", "psf_center",
            "trace", "trace", "trace", "loss_reg", "zero_grad", "backward">>

\* The reference points the loop derives from the cached batch of wavelength
\* w: the centre of the first sample of each cell, negated, for every sample.
DerivedFrom(w) ==
    [c \in Cells |-> [k \in Samples |->
        Neg(PsfCenter([cc \in Cells |-> heap[rays_backup[w]].o[cc][1]],
                      IF centroid THEN "chief_ray" ELSE "pinhole")[c])]]

\* C15: the reference points are computed once in each iteration that draws
\* a batch, after its draws, and in no other iteration; so in every step of
\* the optimization part, the trace included, center_p is what the first
\* samples of a batch now in the cache give, the same for every sample of a
\* cell.
C15_ReferencePointFollowsCache ==
    /\ pc \in StepPhase =>
         /\ \E w \in DOMAIN rays_backup : center_p = DerivedFrom(w)
         /\ \A c \in Cells : \A k \in Samples : center_p[c][k] = center_p[c][1]
    /\ Settled =>
         LET p == Ops("psf_center")
             s == Ops("sample_point_source")
         IN  /\ \A n \in DOMAIN p :
                  /\ NumWaves * n <= Len(s)
                  /\ s[NumWaves * n].i = p[n].i
                  /\ n > 1 => p[n - 1].i < p[n].i
             /\ \A m \in DOMAIN s :
                  LET n == (m + NumWaves - 1) \div NumWaves
                  IN  n <= Len(p) => p[n].i = s[m].i
             /\ NoExternalFailure => Len(s) = NumWaves * Len(p)

\* A trace in an iteration that draws nothing, after the second resample: the
\* reference points in use are those of the cached batch, whose samples of a
\* cell differ, so the first sample is told from the others.
C15_Witness ==
    /\ pc = "trace"
    /\ Len(Ops("psf_center")) >= 2
    /\ i > Ops("psf_center")[Len(Ops("psf_center"))].i
    /\ center_p = DerivedFrom(NumWaves)
    /\ heap[rays_backup[NumWaves]].o[1][1] # heap[rays_backup[NumWaves]].o[1][Spp]

\* The index in hist of the last call of `op` among the first n events, 0 if
\* there is none.
RECURSIVE LastIndexFrom(_, _)
LastIndexFrom(op, n) ==
    IF n = 0 THEN 0
    ELSE IF hist[n].op = op THEN n
    ELSE LastIndexFrom(op, n - 1)

LastIndex(op) == LastIndexFrom(op, Len(hist))

\* C16: at every trace the cached batches were drawn after the last aperture
\* update and the last shape correction, and the aperture-stop radius in
\* force at each of their draws is the radius in force now.
C16_BatchDrawnAtCurrentAperture ==
    pc = "trace" =>
        LET d == LastIndex("sample_point_source")
        IN  /\ d >= NumWaves
            /\ d > LastIndex("set_aperture")
            /\ d > LastIndex("correct_shape")
            /\ LastIndex("set_aperture") > 0
            /\ \A m \in (d - NumWaves + 1)..d :
                 /\ hist[m].op = "sample_point_source"
                 /\ hist[m].arg = surf_r
                 /\ m > LastIndex("set_aperture")

\* A trace in an iteration that neither evaluates nor draws, the aperture
\* already opened beyond its start: the batch in use is a cached one, drawn
\* at the radius now in force.
C16_Witness ==
    /\ pc = "trace"
    /\ i % test_per_iter # 0
    /\ RLt(StartRadius, surf_r)
    /\ hist[LastIndex("sample_point_source")].arg = surf_r
    /\ hist[LastIndex("sample_point_source")].i < i
    /\ LastIndex("correct_shape") > 0

\* C17: through the optimization part of every iteration center_p is the one
\* tensor derived from the cached batch of the last wavelength of WAVE_RGB,
\* the batch the sampling loop left in `ray`; it is the reference for the
\* traced batch of every wavelength, and the losses recorded so far are the
\* spot losses against it.
C17_ReferenceFromLastWavelength ==
    /\ pc \in StepPhase =>
         /\ Len(rays_backup) = NumWaves
         /\ heap[rays_backup[NumWaves]].wvln = WAVE_RGB[NumWaves]
         /\ center_p = DerivedFrom(NumWaves)
    /\ pc = "center" => ray = rays_backup[NumWaves]
    /\ pc = "spot" => heap[ray].wvln = WAVE_RGB[j]
    /\ (pc = "clone" /\ j > 1) =>
         loss_rms[j - 1] = SpotLossOf(heap[ray], DerivedFrom(NumWaves))

\* The spot loss of the first wavelength's traced batch is about to be taken
\* against reference points that are those of the last wavelength's cached
\* batch and not those of its own.
C17_Witness ==
    /\ pc = "spot"
    /\ j = 1
    /\ heap[ray].wvln = WAVE_RGB[1]
    /\ WAVE_RGB[1] # WAVE_RGB[NumWaves]
    /\ center_p = DerivedFrom(NumWaves)
    /\ center_p # DerivedFrom(1)
    /\ Len(Ops("psf_center")) >= 2

\* C18: the scheduler is stepped once after every optimizer step, so the two
\* counts are equal except between the two calls of one iteration; a run
\* that completes has stepped the scheduler iterations + 1 times, one more
\* than the num_training_steps = iterations it was built for, with
\* iterations // 10 of those steps as warm-up.
C18_SchedulerSteppedOncePastBudget ==
    /\ sched_steps = (IF pc = "sched_step" THEN n_updates - 1 ELSE n_updates)
    /\ pc = "done" =>
         /\ sched_steps = iterations + 1
         /\ sched_steps = NumTrainingSteps + 1
         /\ 10 * NumWarmupSteps <= iterations
         /\ iterations < 10 * (NumWarmupSteps + 1)

\* A completed run long enough to have a warm-up step.
C18_Witness ==
    /\ pc = "done"
    /\ NumWarmupSteps >= 1
    /\ sched_steps = NumTrainingSteps + 1
    /\ n_updates = sched_steps

====
